---- MODULE Spec2Model ----
(***************************************************************************)
(* Logo resolution pipeline of Dioprz/data-eng-interview.                  *)
(*                                                                         *)
(* Strings are sequences of tokens.  A token is an atomic piece of text:   *)
(* a scheme with its colon ("https:"), a slash ("/"), a blank (" ") or a   *)
(* word (host name, path segment, attribute word).  The vocabulary holds   *)
(* no "?", "#", ";", "." or ".." tokens, so query, fragment, params and    *)
(* dot-segment handling of urllib never comes into play.                   *)
(***************************************************************************)
EXTENDS Integers, Sequences, FiniteSets, TLC

VARIABLES
    \* ---- get_logo_for_domain (one call) ----
    pc,           \* "idle" | "precheck" | "candidates" | "done"
    domain,       \* the argument, as passed by the caller
    urls,         \* urls_to_try
    ci,           \* index of the candidate URL being tried (for url in urls_to_try)
    si,           \* index of the strategy being tried (for ... in strategies)
    logo_url,     \* the local of get_logo_with_strategies
    soup,         \* the document parsed in the last iteration
    final_url,    \* the resolved URL of the last successful fetch
    last,         \* what the last iteration observed (outcome, finder calls,
                  \* logo_url before it, whether it ended in the except clause, ...)
    fetchLog,     \* the (url, strategy) pairs handed to strategy functions, in order
    everContent,  \* some fetch of this call returned non-empty content
    everSuccess,  \* some fetch of this call reported success
    probe,        \* the outcome of the connectivity precheck ("pending" before it)
    result,       \* the value get_logo_for_domain returned
    \* ---- make_absolute_url ----
    stage,        \* "off" | "in" | "once" | "twice"
    copy,         \* "finders" | "crawler": which copy of the helper is applied
    base_url,     \* its first argument
    arg_url,      \* its second argument
    out1,         \* make_absolute_url(base_url, arg_url)
    out2,         \* make_absolute_url(base_url, out1)
    \* ---- one pass of find_first_logo over a parsed document ----
    docStage,     \* "off" | "detecting" | "returned"
    asParsed,     \* the document as BeautifulSoup(content, "html.parser") built it
    tree,         \* the soup object as it is now
    finderList,   \* the finders argument
    fi,           \* index of the next finder of the generator
    ret           \* the value of the last finder called

resolverVars == <<pc, domain, urls, ci, si, logo_url, soup, final_url, last,
                  fetchLog, everContent, everSuccess, probe, result>>
urlVars == <<stage, copy, base_url, arg_url, out1, out2>>
docVars == <<docStage, asParsed, tree, finderList, fi, ret>>
vars == <<resolverVars, urlVars, docVars>>

-----------------------------------------------------------------------------
(* Bounds *)

\* longest logo URL string (in tokens) handed to make_absolute_url
MaxUrlLen == 5
\* most blanks on either side of a domain handed to get_logo_for_domain
MaxPad == 1

-----------------------------------------------------------------------------
(* Strings *)

RECURSIVE SeqsUpTo(_, _)
SeqsUpTo(S, n) ==
    IF n = 0 THEN {<<>>}
    ELSE LET shorter == SeqsUpTo(S, n - 1)
         IN  shorter \cup {Append(s, t) : s \in {x \in shorter : Len(x) = n - 1}, t \in S}

StartsWith(s, p) == Len(s) >= Len(p) /\ SubSeq(s, 1, Len(p)) = p

\* str.lower() on one token
LowerTok(t) ==
    CASE t = "HTTPS:" -> "https:"
      [] t = "Logo"   -> "logo"
      [] OTHER        -> t

Lower(s) == [i \in 1..Len(s) |-> LowerTok(s[i])]

\* tokens that end in ":" (everything before the colon is made of scheme characters)
ColonToks == {"https:", "HTTPS:", "http:", "data:"}
\* tokens that hold a character outside urllib's scheme_chars
NonSchemeToks == {"/", " ", "image/svg+xml,", "<svg", ">"}

\* url.find(':'), as a token index (0: none)
FindColon(s) ==
    IF \E i \in 1..Len(s) : s[i] \in ColonToks
    THEN CHOOSE i \in 1..Len(s) : s[i] \in ColonToks /\ \A j \in 1..(i - 1) : s[j] \notin ColonToks
    ELSE 0

\* url.find('/', start), as a token index (0: none)
FindSlash(s, start) ==
    IF \E i \in start..Len(s) : s[i] = "/"
    THEN CHOOSE i \in start..Len(s) : s[i] = "/" /\ \A j \in start..(i - 1) : s[j] # "/"
    ELSE 0

\* urllib.parse._splitnetloc(url, 2) given d = the first "/" from token 3 on:
\* the network location and the rest
splitnetloc(sch, rest, d) ==
    IF d = 0
    THEN [scheme |-> sch, netloc |-> SubSeq(rest, 3, Len(rest)), path |-> <<>>]
    ELSE [scheme |-> sch, netloc |-> SubSeq(rest, 3, d - 1), path |-> SubSeq(rest, d, Len(rest))]

\* urlsplit after the scheme was taken off: if url[:2] == '//' ...
SplitRest(sch, rest) ==
    IF StartsWith(rest, <<"/", "/">>) THEN splitnetloc(sch, rest, FindSlash(rest, 3))
    ELSE [scheme |-> sch, netloc |-> <<>>, path |-> rest]

\* urlsplit given i = url.find(':'): the text before the colon is the scheme
\* when it is made of scheme characters only
SplitScheme(url, scheme, i) ==
    IF i > 0 /\ \A j \in 1..(i - 1) : url[j] \notin NonSchemeToks
    THEN SplitRest(Lower(SubSeq(url, 1, i)), SubSeq(url, i + 1, Len(url)))
    ELSE SplitRest(scheme, url)

\* urllib.parse.urlsplit(url, scheme): <scheme>://<netloc>/<path>
urlsplit(url, scheme) == SplitScheme(url, scheme, FindColon(url))

urlparse(url) == urlsplit(url, <<>>)

\* urllib.parse.uses_relative and uses_netloc, on the schemes of the vocabulary
uses_relative == {<<>>, <<"http:">>, <<"https:">>}
uses_netloc == {<<>>, <<"http:">>, <<"https:">>}

\* if scheme: url = scheme + ':' + url
WithScheme(scheme, url) == IF scheme # <<>> THEN scheme \o url ELSE url

\* urllib.parse.urlunsplit on (scheme, netloc, path)
urlunsplit(scheme, netloc, path) ==
    WithScheme(scheme,
        IF netloc # <<>> \/ (scheme # <<>> /\ scheme \in uses_netloc
                              /\ ~StartsWith(path, <<"/", "/">>))
        THEN <<"/", "/">> \o netloc
             \o (IF path # <<>> /\ path[1] # "/" THEN <<"/">> ELSE <<>>) \o path
        ELSE path)

\* str.split('/'): the segments between the slashes
RECURSIVE SplitSlash(_)
SplitAt(s, d) ==
    IF d = 0 THEN <<s>>
    ELSE <<SubSeq(s, 1, d - 1)>> \o SplitSlash(SubSeq(s, d + 1, Len(s)))

SplitSlash(s) == SplitAt(s, FindSlash(s, 1))

\* '/'.join(segments)
RECURSIVE JoinSlash(_)
JoinSlash(segs) ==
    IF segs = <<>> THEN <<>>
    ELSE IF Len(segs) = 1 THEN segs[1]
    ELSE segs[1] \o <<"/">> \o JoinSlash(Tail(segs))

\* filter(None, segs)
RECURSIVE FilterEmpty(_)
FilterEmpty(segs) ==
    IF segs = <<>> THEN <<>>
    ELSE IF segs[1] = <<>> THEN FilterEmpty(Tail(segs))
    ELSE <<segs[1]>> \o FilterEmpty(Tail(segs))

\* base_parts of urljoin: the base path without its last segment, unless empty
BaseParts(parts) ==
    IF parts[Len(parts)] # <<>> THEN SubSeq(parts, 1, Len(parts) - 1) ELSE parts

\* segments[1:-1] = filter(None, segments[1:-1])
DropInnerEmpty(segs) ==
    IF Len(segs) <= 2 THEN segs
    ELSE <<segs[1]>> \o FilterEmpty(SubSeq(segs, 2, Len(segs) - 1)) \o <<segs[Len(segs)]>>

\* segments of urljoin (the vocabulary has no "." and ".." segments to resolve)
Segments(bpath, path) ==
    IF path[1] = "/" THEN SplitSlash(path)
    ELSE DropInnerEmpty(BaseParts(SplitSlash(bpath)) \o SplitSlash(path))

\* '/'.join(resolved_path) or '/'
OrRoot(path) == IF path = <<>> THEN <<"/">> ELSE path

\* urljoin once base (b) and url (u, with b's scheme as default) are parsed
JoinParsed(url, b, u) ==
    IF u.scheme # b.scheme \/ u.scheme \notin uses_relative THEN url
    ELSE IF u.scheme \in uses_netloc /\ u.netloc # <<>>
    THEN urlunsplit(u.scheme, u.netloc, u.path)
    ELSE IF u.path = <<>>
    THEN urlunsplit(u.scheme, IF u.scheme \in uses_netloc THEN b.netloc ELSE u.netloc, b.path)
    ELSE urlunsplit(u.scheme, IF u.scheme \in uses_netloc THEN b.netloc ELSE u.netloc,
                    OrRoot(JoinSlash(Segments(b.path, u.path))))

JoinBase(url, b) == JoinParsed(url, b, urlsplit(url, b.scheme))

\* urllib.parse.urljoin(base, url)
urljoin(base, url) ==
    IF base = <<>> THEN url
    ELSE IF url = <<>> THEN base
    ELSE JoinBase(url, urlsplit(base, <<>>))

\* finders.py make_absolute_url
make_absolute_url(base, logo) ==
    IF logo = <<>> THEN logo
    ELSE IF StartsWith(logo, <<"/", "/">>) THEN <<"https:">> \o logo
    ELSE IF urlparse(logo).netloc = <<>> THEN urljoin(base, logo)
    ELSE logo

\* logo_crawler.py make_absolute_url
make_absolute_url_crawler(base, logo) ==
    IF logo # <<>> /\ urlparse(logo).netloc = <<>>
    THEN IF StartsWith(logo, <<"/", "/">>) THEN <<"https:">> \o logo
         ELSE urljoin(base, logo)
    ELSE logo

-----------------------------------------------------------------------------
(* Python values: None, a string, or a local that was never assigned *)

None == [kind |-> "None", s |-> <<>>]
Unbound == [kind |-> "unbound", s |-> <<>>]
Str(s) == [kind |-> "str", s |-> s]
\* bool(v)
Truthy(v) == v.kind = "str" /\ v.s # <<>>

LOGO_NOT_FOUND == Str(<<"logo_not_found">>)
REQUEST_FAILED == Str(<<"request_failed">>)
NOT_WORKING_SITE == Str(<<"not_working_site">>)
CSS_PLACEHOLDER == Str(<<"css_background_logo_found">>)

-----------------------------------------------------------------------------
(* Parsed documents: the elements of the page in document order, each with *)
(* the attributes the finders read and its descendants (kids).             *)

El(tag, class, id, alt, src, dataSrc, prop, content, kids) ==
    [tag |-> tag, class |-> class, id |-> id, alt |-> alt, src |-> src,
     dataSrc |-> dataSrc, prop |-> prop, content |-> content, kids |-> kids,
     style |-> <<>>, ariaHidden |-> <<>>, testid |-> <<>>]

Img(class, id, alt, src, dataSrc) == El("img", class, id, alt, src, dataSrc, "", <<>>, <<>>)
Meta(prop, content) == El("meta", <<>>, <<>>, <<>>, <<>>, <<>>, prop, content, <<>>)
Box(tag, class, id, kids) == El(tag, class, id, <<>>, <<>>, <<>>, "", <<>>, kids)
\* an svg element with its class, style, aria-hidden and data-testid attributes
Svg(class, style, ariaHidden, testid) ==
    [Box("svg", class, <<>>, <<>>) EXCEPT
        !.style = style, !.ariaHidden = ariaHidden, !.testid = testid]

\* soup.find_all(...): every element, parents before their descendants
RECURSIVE AllElements(_)
AllElements(doc) ==
    IF doc = <<>> THEN <<>>
    ELSE <<doc[1]>> \o doc[1].kids \o AllElements(Tail(doc))

\* kw in t, for one token t of the vocabulary (case-sensitive substring test)
TokHas(kw, t) ==
    CASE kw = "logo"  -> t \in {"logo", "site-logo", "logo.png"}
      [] kw = "brand" -> t \in {"navbar-brand", "brand.png"}
      [] kw = "icon"  -> t \in {"nav-icon", "icon"}
      [] OTHER        -> FALSE

\* kw in s
Has(kw, s) == \E i \in 1..Len(s) : TokHas(kw, s[i])

\* index of the first element of s that satisfies P (0: none)
FirstIdx(s, P(_)) ==
    IF \E i \in 1..Len(s) : P(s[i])
    THEN CHOOSE i \in 1..Len(s) : P(s[i]) /\ \A j \in 1..(i - 1) : ~P(s[j])
    ELSE 0

\* img.get("data-src") or img.get("src", "")
SrcOf(img) == IF img.dataSrc # <<>> THEN img.dataSrc ELSE img.src

\* one attribute in str(svg), when the element has it
AttrText(v) == IF v = <<>> THEN <<>> ELSE <<" ">> \o v

\* str(svg): the tag with the attributes it has
SvgMarkup(svg) ==
    <<"<svg">> \o (IF svg.class = <<>> THEN <<>> ELSE <<" ", " ">> \o svg.class)
    \o AttrText(svg.style) \o AttrText(svg.ariaHidden) \o AttrText(svg.testid) \o <<">">>

\* ' '.join(text.split()): runs of blanks become one blank
RECURSIVE CollapseBlanks(_)
CollapseBlanks(s) ==
    IF s = <<>> THEN <<>>
    ELSE IF s[1] = " " /\ (Len(s) = 1 \/ s[2] = " ") THEN CollapseBlanks(Tail(s))
    ELSE <<s[1]>> \o CollapseBlanks(Tail(s))

\* urllib.parse.quote on one token
QuoteTok(t) ==
    CASE t = "<svg" -> "%3Csvg"
      [] t = ">"    -> "%3E"
      [] t = " "    -> "%20"
      [] t = "fill:red" -> "fill%3Ared"
      [] OTHER      -> t

quote(s) == [i \in 1..Len(s) |-> QuoteTok(s[i])]

create_svg_data_url(svg) ==
    <<"data:", "image/svg+xml,">> \o quote(CollapseBlanks(SvgMarkup(svg)))

is_logo_svg(e) == e.tag = "svg" /\ Has("logo", Lower(e.class))

\* process_container of find_svg_logos, on the container at index c (0: none)
SvgAt(all, c) ==
    IF c = 0 THEN None
    ELSE Str(create_svg_data_url(all[c].kids[FirstIdx(all[c].kids, is_logo_svg)]))

\* an a or div with "logo" in its class that holds an svg with "logo" in its class
IsSvgLogoContainer(e) ==
    /\ e.tag \in {"a", "div"}
    /\ Has("logo", Lower(e.class))
    /\ FirstIdx(e.kids, is_logo_svg) # 0

SvgIn(all) == SvgAt(all, FirstIdx(all, IsSvgLogoContainer))

find_svg_logos(doc, base) == SvgIn(AllElements(doc))

\* make_absolute_url(base_url, src) of the element at index c (0: none)
SrcAt(all, c, base) ==
    IF c = 0 THEN None ELSE Str(make_absolute_url(base, SrcOf(all[c])))

\* find_logo_in_link: an img whose alt text has "logo" and that has a source
IsAltLogoImg(e) == e.tag = "img" /\ Has("logo", Lower(e.alt)) /\ SrcOf(e) # <<>>

\* an a with "logo" or "brand" in its class in which find_logo_in_link finds an img
IsBrandLink(e) ==
    /\ e.tag = "a"
    /\ (Has("logo", Lower(e.class)) \/ Has("brand", Lower(e.class)))
    /\ FirstIdx(e.kids, IsAltLogoImg) # 0

LinkAt(all, c, base) ==
    IF c = 0 THEN None ELSE SrcAt(all[c].kids, FirstIdx(all[c].kids, IsAltLogoImg), base)

NavbarIn(all, base) == LinkAt(all, FirstIdx(all, IsBrandLink), base)

find_navbar_brand_logos(doc, base) == NavbarIn(AllElements(doc), base)

\* is_logo_img of finders.py's find_explicit_logos
is_logo_img(e) ==
    /\ e.tag = "img"
    /\ SrcOf(e) # <<>>
    /\ (Has("logo", Lower(SrcOf(e))) \/ Has("logo", Lower(e.class)))

ExplicitIn(all, base) == SrcAt(all, FirstIdx(all, is_logo_img), base)

find_explicit_logos(doc, base) == ExplicitIn(AllElements(doc), base)

\* the scheme test of find_in_meta_tags
HttpOnly(url) ==
    IF urlparse(url).scheme \in {<<"http:">>, <<"https:">>} THEN Str(url) ELSE None

IsOgImage(e) == e.tag = "meta" /\ e.prop = "og:image"

MetaAt(all, c, base) ==
    IF c = 0 \/ all[c].content = <<>> THEN None
    ELSE HttpOnly(make_absolute_url(base, all[c].content))

MetaIn(all, base) == MetaAt(all, FirstIdx(all, IsOgImage), base)

find_in_meta_tags(doc, base) == MetaIn(AllElements(doc), base)

\* the selectors of find_css_background_logos: tag[attr*='logo']
logo_selectors ==
    << [tag |-> "div", attr |-> "class"], [tag |-> "a", attr |-> "class"],
       [tag |-> "span", attr |-> "class"], [tag |-> "div", attr |-> "id"],
       [tag |-> "a", attr |-> "id"] >>

\* soup.select("tag[attr*='logo']"): the attribute test is case-sensitive
Selected(sel, e) ==
    e.tag = sel.tag /\ Has("logo", IF sel.attr = "class" THEN e.class ELSE e.id)

\* keyword in element_class or keyword in element_id, for "logo" and "brand"
Labelled(e) ==
    \E kw \in {"logo", "brand"} : Has(kw, Lower(e.class)) \/ Has(kw, Lower(e.id))

CssIn(all) ==
    IF \E k \in 1..Len(logo_selectors) : \E i \in 1..Len(all) :
           Selected(logo_selectors[k], all[i]) /\ Labelled(all[i])
    THEN CSS_PLACEHOLDER ELSE None

find_css_background_logos(doc, base) == CssIn(AllElements(doc))

ALL_FINDERS ==
    <<"find_svg_logos", "find_navbar_brand_logos", "find_explicit_logos",
      "find_in_meta_tags", "find_css_background_logos">>

ALL_STRATEGIES == <<"fetch_with_http2", "fetch_without_headers">>

\* finder(soup, final_url)
RunFinder(name, doc, base) ==
    CASE name = "find_svg_logos"            -> find_svg_logos(doc, base)
      [] name = "find_navbar_brand_logos"   -> find_navbar_brand_logos(doc, base)
      [] name = "find_explicit_logos"       -> find_explicit_logos(doc, base)
      [] name = "find_in_meta_tags"         -> find_in_meta_tags(doc, base)
      [] name = "find_css_background_logos" -> find_css_background_logos(doc, base)

\* One item of the generator of find_first_logo: a truthy value v of finder
\* `name` ends the iteration, anything else hands over to the rest of the finders
Take(name, v, rest) ==
    IF Truthy(v) THEN [value |-> v, calls |-> <<name>>, raised |-> FALSE]
    ELSE [rest EXCEPT !.calls = <<name>> \o @]

\* The lazy generator of find_first_logo from finder k on: the finders called,
\* the first truthy value (or None), and whether a finder raised.  raiser is the
\* index of the finder that raises when it is called (0: none does).
RECURSIVE FirstFrom(_, _, _, _, _)
FirstFrom(doc, base, finders, raiser, k) ==
    IF k > Len(finders) THEN [value |-> None, calls |-> <<>>, raised |-> FALSE]
    ELSE IF k = raiser THEN [value |-> None, calls |-> <<finders[k]>>, raised |-> TRUE]
    ELSE Take(finders[k], RunFinder(finders[k], doc, base),
              FirstFrom(doc, base, finders, raiser, k + 1))

\* one item of a generator that is run to its end: the last truthy value wins
TakeLast(name, v, rest) ==
    [rest EXCEPT !.calls = <<name>> \o @,
                 !.value = IF Truthy(@) \/ rest.raised THEN @ ELSE v]

RECURSIVE LastFrom(_, _, _, _, _)
LastFrom(doc, base, finders, raiser, k) ==
    IF k > Len(finders) THEN [value |-> None, calls |-> <<>>, raised |-> FALSE]
    ELSE IF k = raiser THEN [value |-> None, calls |-> <<finders[k]>>, raised |-> TRUE]
    ELSE TakeLast(finders[k], RunFinder(finders[k], doc, base),
                  LastFrom(doc, base, finders, raiser, k + 1))

\* find_first_logo that runs every finder and keeps the last truthy value
find_first_logo_last_wins(doc, base, finders, raiser) == LastFrom(doc, base, finders, raiser, 1)

find_first_logo(doc, base, finders, raiser) == FirstFrom(doc, base, finders, raiser, 1)

-----------------------------------------------------------------------------
(* make_absolute_url applied once and twice *)

UrlToks == {"https:", "HTTPS:", "data:", "/", "cdn", "p"}

Bases == { <<"https:", "/", "/", "x.com">>,
           <<"http:", "/", "/", "x.com", "/", "a", "/", "b">>,
           <<"https:", "/", "/", "x.com", "/", "a", "/">> }

Helper(c, base, logo) ==
    IF c = "finders" THEN make_absolute_url(base, logo)
    ELSE make_absolute_url_crawler(base, logo)

\* //host/path: two slashes followed by a non-empty network location
IsProtocolRelative(u) == StartsWith(u, <<"/", "/">>) /\ urlparse(u).netloc # <<>>

Absolutize ==
    /\ stage = "in"
    /\ out1' = Helper(copy, base_url, arg_url)
    /\ stage' = "once"
    /\ UNCHANGED <<copy, base_url, arg_url, out2, resolverVars, docVars>>

Reabsolutize ==
    /\ stage = "once"
    /\ out2' = Helper(copy, base_url, out1)
    /\ stage' = "twice"
    /\ UNCHANGED <<copy, base_url, arg_url, out1, resolverVars, docVars>>

NoIteration ==
    [kind |-> "none", ci |-> 0, si |-> 0, page |-> <<>>, base |-> <<>>,
     calls |-> <<>>, raised |-> FALSE, value |-> None, attempts |-> <<>>,
     before |-> Unbound, caught |-> FALSE]

ResolverIdle ==
    /\ pc = "idle" /\ domain = <<>> /\ urls = <<>> /\ ci = 0 /\ si = 0
    /\ logo_url = Unbound /\ soup = <<>> /\ final_url = <<>>
    /\ last = NoIteration
    /\ fetchLog = <<>> /\ everContent = FALSE /\ everSuccess = FALSE
    /\ probe = "pending" /\ result = None

UrlOff ==
    /\ stage = "off" /\ copy = "finders" /\ base_url = <<>> /\ arg_url = <<>>
    /\ out1 = <<>> /\ out2 = <<>>

DocOff ==
    /\ docStage = "off" /\ asParsed = <<>> /\ tree = <<>> /\ finderList = <<>>
    /\ fi = 0 /\ ret = None

InitUrl ==
    /\ ResolverIdle
    /\ DocOff
    /\ stage = "in"
    /\ copy \in {"finders", "crawler"}
    /\ base_url \in Bases
    /\ arg_url \in SeqsUpTo(UrlToks, MaxUrlLen)
    /\ out1 = <<>> /\ out2 = <<>>

NextUrl == Absolutize \/ Reabsolutize

SpecUrl == InitUrl /\ [][NextUrl]_vars

\* C9: absolutizing twice gives what absolutizing once gives, for every base URL
\* and every logo URL string, with either copy of the helper.
C9_Idempotent == stage = "twice" => out2 = out1

\* C10: a protocol-relative logo URL //host/path comes back as "https:" followed
\* by that URL, whatever the base URL, from both copies of the helper.
C10_ProtocolRelative ==
    (stage # "in" /\ IsProtocolRelative(arg_url)) => out1 = <<"https:">> \o arg_url

\* the finders.py copy alone does what C10 says
C10_FindersCopyOnly ==
    (stage # "in" /\ copy = "finders" /\ IsProtocolRelative(arg_url))
        => out1 = <<"https:">> \o arg_url

-----------------------------------------------------------------------------
(* The resolver: connectivity precheck, candidate URLs, strategies, finders *)

Blanks(n) == [k \in 1..n |-> " "]

\* the domains without surrounding blanks
Cores == { <<"example.com">>, <<"my", " ", "site.com">> }

Domains == { Blanks(i) \o c \o Blanks(j) : c \in Cores, i \in 0..MaxPad, j \in 0..MaxPad }

\* str.strip()
RECURSIVE lstrip(_)
lstrip(s) == IF s # <<>> /\ s[1] = " " THEN lstrip(Tail(s)) ELSE s

RECURSIVE rstrip(_)
rstrip(s) == IF s # <<>> /\ s[Len(s)] = " " THEN rstrip(SubSeq(s, 1, Len(s) - 1)) ELSE s

strip(s) == rstrip(lstrip(s))

\* urls_to_try built from the domain as passed, blanks included
urls_to_try_unstripped(d) ==
    << <<"https:", "/", "/">> \o d,
       <<"https:", "/", "/", "about.">> \o d,
       <<"https:", "/", "/">> \o d \o <<"/", "about">> >>

\* urls_to_try of get_logo_for_domain
urls_to_try(d) ==
    LET dom == strip(d)
    IN  << <<"https:", "/", "/">> \o dom,
           <<"https:", "/", "/", "about.">> \o dom,
           <<"https:", "/", "/">> \o dom \o <<"/", "about">> >>

\* the pages a fetch may return
PagePlain == << Box("p", <<>>, <<>>, <<>>) >>
PageIdLogo == << Img(<<>>, <<"logo">>, <<>>, <<"/", "img", "/", "mark.png">>, <<>>) >>
PageClassLogo == << Img(<<"site-logo">>, <<>>, <<>>, <<"img", "/", "mark.png">>, <<>>) >>
PageSrcLogo == << Img(<<>>, <<>>, <<>>, <<"/", "/", "cdn", "/", "logo.png">>, <<>>) >>
PageSvgAndMeta ==
    << Box("a", <<"Logo">>, <<>>, << Box("svg", <<"logo">>, <<>>, <<>>) >>),
       Meta("og:image", <<"https:", "/", "/", "cdn", "/", "og.png">>) >>
PageMeta == << Meta("og:image", <<"/", "og.png">>) >>
PageMetaData == << Meta("og:image", <<"data:", "og.png">>) >>
PageCss == << Box("div", <<"logo">>, <<>>, <<>>) >>
PageNavbar ==
    << Box("a", <<"navbar-brand">>, <<>>,
           << Img(<<>>, <<>>, <<"Company", "Logo">>, <<"/", "eager.png">>, <<"/", "lazy.png">>) >>) >>

Pages == {PagePlain, PageIdLogo, PageClassLogo, PageSrcLogo, PageSvgAndMeta,
          PageMeta, PageMetaData, PageCss, PageNavbar}

\* where a fetch of url may end after redirects
Redirected == <<"https:", "/", "/", "www.x.com", "/", "home", "/">>
FinalUrls(url) == {url, Redirected}

\* what strategy_func(url) may do: raise, or return (success, content, final_url)
FetchOutcomes(url) ==
    { [kind |-> "raise", success |-> FALSE, content |-> <<>>, final_url |-> <<>>],
      [kind |-> "fail", success |-> FALSE, content |-> <<>>, final_url |-> <<>>] }
    \cup { [kind |-> "empty", success |-> TRUE, content |-> <<>>, final_url |-> u] :
             u \in FinalUrls(url) }
    \cup { [kind |-> "content", success |-> TRUE, content |-> page, final_url |-> u] :
             page \in Pages, u \in FinalUrls(url) }

\* which finder may raise on the fetched page (0: none); finders only run on content
Raisers(f) == IF f.kind = "content" THEN 0..Len(ALL_FINDERS) ELSE {0}

\* the precheck's verdict when every connection error counts as a dead site
PrecheckDead_any_error(outcome) == outcome \in {"dns", "conn_error"}

\* the precheck's verdict: only a name-resolution failure is fatal
PrecheckDead(outcome) == outcome = "dns"

\* success and content
Parsed(f) == f.kind # "raise" /\ f.success /\ f.content # <<>>

\* soup = BeautifulSoup(content); find_first_logo(soup, final_url, finders), when
\* the fetch succeeded with content
Chain(f, raiser) ==
    IF Parsed(f) THEN find_first_logo(f.content, f.final_url, ALL_FINDERS, raiser)
    ELSE [value |-> None, calls |-> <<>>, raised |-> FALSE]

\* The test of logo_url at the end of the pass.  assigned is the value of the
\* local after the pass; a strategy or finder that raised (threw) or the read of
\* the unassigned local ends the pass in the except clause.
TestLogo(f, r, threw, assigned) ==
    [logo_url |-> assigned, parsed |-> Parsed(f), calls |-> r.calls, raised |-> r.raised,
     value |-> r.value,
     returned |-> ~threw /\ Truthy(assigned),
     caught |-> threw \/ assigned.kind = "unbound"]

\* the pass when logo_url = None is set before the strategy loop
Assign_initialised(logo, f, r) ==
    TestLogo(f, r, f.kind = "raise" \/ r.raised,
             IF Parsed(f) /\ ~r.raised THEN r.value
             ELSE IF logo.kind = "unbound" THEN None ELSE logo)

\* logo_url = find_first_logo(...) happens only under `if success and content`
Assign(logo, f, r) ==
    TestLogo(f, r, f.kind = "raise" \/ r.raised,
             IF Parsed(f) /\ ~r.raised THEN r.value ELSE logo)

\* One pass through the body of the strategy loop of get_logo_with_strategies:
\* the fetch, the parse and find_first_logo when it succeeded with content, and
\* the test of logo_url.  An exception (from the strategy, from a finder, or the
\* read of the unassigned logo_url) is caught and ends the pass.
StrategyIteration(logo, f, raiser) == Assign(logo, f, Chain(f, raiser))

\* the loop left for good once a strategy returned content, matched or not
LoopExit_first_content_only(it, s) ==
    IF it.returned THEN "return"
    ELSE IF it.parsed \/ s = Len(ALL_STRATEGIES) THEN "exhausted"
    ELSE "next"

\* a strategy loop that gives up on a candidate URL after its first strategy
LoopExit_no_fallback(it, s) ==
    IF it.returned THEN "return" ELSE "exhausted"

\* how the strategy loop goes on after a pass: return logo_url, try the next
\* strategy, or fall out of the loop (return "request_failed")
LoopExit(it, s) ==
    IF it.returned THEN "return"
    ELSE IF s < Len(ALL_STRATEGIES) THEN "next"
    ELSE "exhausted"

\* the test of get_logo_for_domain with its "not in" turned into "in"
AcceptResult_inverted(r) == Truthy(r) /\ r \in {LOGO_NOT_FOUND, REQUEST_FAILED}

\* the test of get_logo_for_domain on what get_logo_with_strategies returned
AcceptResult(r) == Truthy(r) /\ r \notin {LOGO_NOT_FOUND, REQUEST_FAILED}

Call(d) ==
    /\ pc = "idle"
    /\ stage = "off"
    /\ domain' = d
    /\ pc' = "precheck"
    /\ UNCHANGED <<urls, ci, si, logo_url, soup, final_url, last, fetchLog,
                   everContent, everSuccess, probe, result, urlVars, docVars>>

\* The connectivity precheck; a live site enters get_logo_for_domain, which
\* strips the domain and builds urls_to_try.
Precheck(outcome) ==
    /\ pc = "precheck"
    /\ probe' = outcome
    /\ IF PrecheckDead(outcome)
       THEN /\ result' = NOT_WORKING_SITE
            /\ pc' = "done"
            /\ UNCHANGED <<urls, ci, si>>
       ELSE /\ urls' = urls_to_try(domain)
            /\ ci' = 1
            /\ si' = 1
            /\ pc' = "candidates"
            /\ UNCHANGED result
    /\ UNCHANGED <<domain, logo_url, soup, final_url, last, fetchLog,
                   everContent, everSuccess, urlVars, docVars>>

\* What get_logo_with_strategies and get_logo_for_domain do with one pass `it`
\* of the strategy loop on fetch outcome f, which left the loop by `exit`.
Proceed(f, it, exit) ==
    /\ fetchLog' = Append(fetchLog, [url |-> urls[ci], strategy |-> ALL_STRATEGIES[si]])
    /\ everContent' = (everContent \/ it.parsed)
    /\ everSuccess' = (everSuccess \/ (f.kind # "raise" /\ f.success))
    /\ last' = [kind |-> f.kind, ci |-> ci, si |-> si,
                page |-> f.content, base |-> f.final_url,
                calls |-> it.calls, raised |-> it.raised, value |-> it.value,
                attempts |-> Append(IF si = 1 THEN <<>> ELSE last.attempts,
                                    [kind |-> f.kind, found |-> Truthy(it.value)]),
                before |-> logo_url, caught |-> it.caught]
    /\ IF exit # "next" /\ ~AcceptResult(IF exit = "return" THEN it.logo_url ELSE REQUEST_FAILED)
          /\ ci < Len(urls)
       THEN \* the next candidate URL: a new call of get_logo_with_strategies
            /\ ci' = ci + 1
            /\ si' = 1
            /\ logo_url' = Unbound
            /\ soup' = <<>>
            /\ final_url' = <<>>
            /\ UNCHANGED <<pc, result>>
       ELSE /\ logo_url' = it.logo_url
            /\ soup' = IF it.parsed THEN f.content ELSE soup
            /\ final_url' = IF f.kind = "raise" THEN final_url ELSE f.final_url
            /\ UNCHANGED ci
            /\ IF exit = "next"
               THEN si' = si + 1 /\ UNCHANGED <<pc, result>>
               ELSE /\ pc' = "done"
                    /\ result' = IF exit = "return" THEN it.logo_url ELSE LOGO_NOT_FOUND
                    /\ UNCHANGED si

Continue(f, it) == Proceed(f, it, LoopExit(it, si))

\* One strategy tried on one candidate URL, and what follows from it in
\* get_logo_with_strategies and get_logo_for_domain.
TryStrategy(f, raiser) ==
    /\ pc = "candidates"
    /\ Continue(f, StrategyIteration(logo_url, f, raiser))
    /\ UNCHANGED <<domain, urls, probe, urlVars, docVars>>

Init == ResolverIdle /\ UrlOff /\ DocOff

Next ==
    \/ \E d \in Domains : Call(d)
    \/ \E outcome \in {"ok", "dns", "conn_error"} : Precheck(outcome)
    \/ /\ pc = "candidates"
       /\ \E f \in FetchOutcomes(urls[ci]) : \E raiser \in Raisers(f) :
              TryStrategy(f, raiser)

Spec == Init /\ [][Next]_vars

-----------------------------------------------------------------------------
(* One pass of find_first_logo over one parsed document.  A link nested in  *)
(* another element has no descendants of its own in these documents, so an  *)
(* svg is always found through a top-level link.                            *)

\* longest document, in top-level elements
MaxDocLen == 2

\* base64.b64encode on one token of the vocabulary
B64Tok(t) ==
    CASE t = "<svg"     -> "PHN2Zw"
      [] t = ">"        -> "Pg"
      [] t = " "        -> "IA"
      [] t = "logo"     -> "bG9nbw"
      [] t = "fill:red" -> "ZmlsbDpyZWQ"
      [] t = "true"     -> "dHJ1ZQ"
      [] t = "mark"     -> "bWFyaw"

b64encode(s) == [i \in 1..Len(s) |-> B64Tok(s[i])]

\* re.search(r"logo|icon|brand", attrs_string, re.IGNORECASE) on the attribute
\* values of the element
MatchesSearchPattern(e) ==
    \E kw \in {"logo", "icon", "brand"} :
        \/ Has(kw, Lower(e.class)) \/ Has(kw, Lower(e.id)) \/ Has(kw, Lower(e.alt))
        \/ Has(kw, Lower(e.src)) \/ Has(kw, Lower(e.dataSrc)) \/ Has(kw, Lower(e.content))
        \/ Has(kw, Lower(e.style)) \/ Has(kw, Lower(e.ariaHidden)) \/ Has(kw, Lower(e.testid))

IsSvg(e) == e.tag = "svg"

\* a link whose attributes match the pattern and in which link.find("svg") finds one
IsInlineSvgLink(e) ==
    e.tag = "a" /\ MatchesSearchPattern(e) /\ FirstIdx(e.kids, IsSvg) # 0

\* for attr in ['class', 'style', 'aria-hidden', 'data-testid']: del svg.attrs[attr]
StripAttrs(svg) ==
    [svg EXCEPT !.class = <<>>, !.style = <<>>, !.ariaHidden = <<>>, !.testid = <<>>]

\* the data URL built from the svg once its attributes are deleted
InlineSvgUrl(svg) ==
    Str(<<"data:", "image/svg+xml;base64,">> \o b64encode(SvgMarkup(StripAttrs(svg))))

InlineSvgAt(doc, c) ==
    IF c = 0 THEN None ELSE InlineSvgUrl(doc[c].kids[FirstIdx(doc[c].kids, IsSvg)])

\* logo_crawler.py find_inline_svg_logo: its return value
find_inline_svg_logo(doc, base) == InlineSvgAt(doc, FirstIdx(doc, IsInlineSvgLink))

\* the link with its first svg replaced by the svg without the deleted attributes
StripLink(a, k) == [a EXCEPT !.kids[k] = StripAttrs(@)]

StripAt(doc, c) ==
    IF c = 0 THEN doc
    ELSE [doc EXCEPT ![c] = StripLink(@, FirstIdx(doc[c].kids, IsSvg))]

\* logo_crawler.py find_inline_svg_logo: the soup it leaves behind (the svg it
\* serializes is the element of the soup itself, not a copy)
SoupAfterInlineSvg(doc) == StripAt(doc, FirstIdx(doc, IsInlineSvgLink))

\* finder(soup, final_url): the value returned and the soup afterwards; the
\* finders of finders.py only read the soup
RunOn(name, doc, base) ==
    IF name = "find_inline_svg_logo"
    THEN [value |-> find_inline_svg_logo(doc, base), soup |-> SoupAfterInlineSvg(doc)]
    ELSE [value |-> RunFinder(name, doc, base), soup |-> doc]

\* the finders list of main() in logo_crawler.py
main_finders == <<"find_inline_svg_logo">>

FinderLists == {main_finders, ALL_FINDERS}

DocBase == <<"https:", "/", "/", "x.com">>

DocSvgs ==
    { Svg(c, st, ar, id) : c \in {<<>>, <<"logo">>}, st \in {<<>>, <<"fill:red">>},
                           ar \in {<<>>, <<"true">>}, id \in {<<>>, <<"mark">>} }

DocElements ==
    { Box("a", c, <<>>, k) : c \in {<<>>, <<"Logo">>, <<"nav-icon">>},
                             k \in {<<>>} \cup { <<g>> : g \in DocSvgs } }
    \cup { Meta("og:image", <<"https:", "/", "/", "cdn", "/", "og.png">>) }

Documents == SeqsUpTo(DocElements, MaxDocLen)

\* what follows the call of one finder in the generator of find_first_logo: a
\* truthy value ends the pass, anything else hands over to the next finder
Detected(r) ==
    /\ tree' = r.soup
    /\ ret' = r.value
    /\ IF Truthy(r.value) \/ fi = Len(finderList)
       THEN docStage' = "returned" /\ UNCHANGED fi
       ELSE fi' = fi + 1 /\ UNCHANGED docStage
    /\ UNCHANGED <<asParsed, finderList, resolverVars, urlVars>>

DetectNext ==
    /\ docStage = "detecting"
    /\ Detected(RunOn(finderList[fi], tree, DocBase))

InitDoc ==
    /\ ResolverIdle
    /\ UrlOff
    /\ docStage = "detecting"
    /\ asParsed \in Documents
    /\ tree = asParsed
    /\ finderList \in FinderLists
    /\ fi = 1
    /\ ret = None

NextDoc == DetectNext

SpecDoc == InitDoc /\ [][NextDoc]_vars

\* C13: no finder changes the parsed document it is given: after any finder
\* returns, the soup is the document that parsing the fetched content produced.
C13_DocumentImmutable == docStage # "off" => tree = asParsed

\* the finders of finders.py leave the document alone
FindersPyReadOnly == (docStage # "off" /\ finderList = ALL_FINDERS) => tree = asParsed

\* find_inline_svg_logo changes the document only in the call that ends the pass
ChangedOnlyOnReturn ==
    tree # asParsed =>
        /\ docStage = "returned"
        /\ finderList[fi] = "find_inline_svg_logo"
        /\ Truthy(ret)

-----------------------------------------------------------------------------
(* Properties of the resolver *)

SENTINELS == {LOGO_NOT_FOUND, REQUEST_FAILED, NOT_WORKING_SITE}

\* an absolute http/https URL or a data: URL
IsResolvable(v) ==
    /\ v.kind = "str"
    /\ \/ (urlparse(v.s).scheme \in {<<"http:">>, <<"https:">>} /\ urlparse(v.s).netloc # <<>>)
       \/ StartsWith(v.s, <<"data:">>)

\* every candidate URL and every strategy was tried and the last pass found nothing
Exhausted == pc = "done" /\ probe # "dns" /\ ~AcceptResult(result)

\* C1: the value get_logo_for_domain yields for a domain is a resolvable logo URL
\* or one of the sentinels logo_not_found, request_failed, not_working_site, and
\* nothing else (not the placeholder of the CSS-background finder).
C1_UrlOrSentinel == pc = "done" => (result \in SENTINELS \/ IsResolvable(result))

\* C2: when no candidate URL yields a logo the result is logo_not_found if some
\* fetch returned content (on which no finder matched), and request_failed if no
\* fetch ever succeeded.
C2_ExhaustionDistinction ==
    Exhausted => /\ (everContent => result = LOGO_NOT_FOUND)
                 /\ (~everSuccess => result = REQUEST_FAILED)

\* what the resolver does say on exhaustion
ExhaustionIsAlwaysNotFound == Exhausted => result = LOGO_NOT_FOUND

\* C3: a precheck that fails on name resolution ends the domain with
\* not_working_site before any strategy or finder is invoked; any other
\* precheck outcome lets the pipeline run on the three candidate URLs.
C3_DnsShortCircuit ==
    /\ probe = "dns" =>
          /\ pc = "done" /\ result = NOT_WORKING_SITE
          /\ fetchLog = <<>> /\ last = NoIteration
    /\ probe \in {"ok", "conn_error"} =>
          /\ pc \in {"candidates", "done"}
          /\ result # NOT_WORKING_SITE
          /\ Len(urls) = 3
          /\ (pc = "done" => fetchLog # <<>>)

C3_Witness == probe = "dns" /\ pc = "done" /\ result = NOT_WORKING_SITE

\* the finders of ALL_FINDERS before position n found nothing on the page
NoneBefore(n) ==
    \A k \in 1..(n - 1) : ~Truthy(RunFinder(ALL_FINDERS[k], last.page, last.base))

\* C4: find_first_logo calls the finders in list order and returns the value of
\* the first one that finds something; no finder after it is called, so a page
\* that both the SVG finder and the meta-tag finder match yields the SVG result.
C4_DetectorPriority ==
    last.kind = "content" =>
        /\ last.calls = SubSeq(ALL_FINDERS, 1, Len(last.calls))
        /\ last.calls # <<>>
        /\ NoneBefore(Len(last.calls))
        /\ ~last.raised =>
              IF Truthy(last.value)
              THEN last.value = RunFinder(ALL_FINDERS[Len(last.calls)], last.page, last.base)
              ELSE Len(last.calls) = Len(ALL_FINDERS)
        /\ (/\ Truthy(find_svg_logos(last.page, last.base))
            /\ Truthy(find_in_meta_tags(last.page, last.base))
            /\ ~last.raised) =>
              /\ last.value = find_svg_logos(last.page, last.base)
              /\ last.calls = <<"find_svg_logos">>

C4_Witness ==
    /\ last.kind = "content" /\ ~last.raised
    /\ Truthy(find_svg_logos(last.page, last.base))
    /\ Truthy(find_in_meta_tags(last.page, last.base))
    /\ result = find_svg_logos(last.page, last.base)

\* C5: as soon as the finders yield a value for some (candidate URL, strategy)
\* pair, get_logo_for_domain ends with exactly that value, that pair being the
\* last one fetched.
C5_ResolverShortCircuit ==
    Truthy(last.value) =>
        /\ pc = "done"
        /\ result = last.value
        /\ Len(fetchLog) = Len(ALL_STRATEGIES) * (last.ci - 1) + last.si
        /\ fetchLog[Len(fetchLog)] = [url |-> urls[last.ci], strategy |-> ALL_STRATEGIES[last.si]]

C5_Witness ==
    /\ Truthy(last.value) /\ pc = "done" /\ result = last.value
    /\ last.ci = 1 /\ last.si = 1 /\ Len(fetchLog) = 1

\* the explicit-label detector as the specification describes it: an image
\* with "logo" in its source, its id or its class
ExplicitlyLabelled(e) ==
    /\ e.tag = "img"
    /\ SrcOf(e) # <<>>
    /\ (Has("logo", Lower(SrcOf(e))) \/ Has("logo", Lower(e.class)) \/ Has("logo", Lower(e.id)))

ExplicitLabelResult(doc, base) ==
    SrcAt(AllElements(doc), FirstIdx(AllElements(doc), ExplicitlyLabelled), base)

\* strategy A failed on this candidate URL and strategy B then returned content
FellBackToContent ==
    /\ Len(last.attempts) = 2
    /\ last.attempts[1].kind \in {"fail", "raise"}
    /\ last.kind = "content" /\ ~last.raised

\* C6: when strategy A fails and strategy B succeeds with content, the finders
\* run on B's content with B's resolved URL as base, and an explicitly labelled
\* image of that content (such as one with id="logo") is returned, made absolute
\* against that resolved URL.
C6_StrategyFallback ==
    FellBackToContent =>
        /\ last.calls # <<>>
        /\ (/\ ~Truthy(find_svg_logos(last.page, last.base))
            /\ ~Truthy(find_navbar_brand_logos(last.page, last.base))
            /\ Truthy(ExplicitLabelResult(last.page, last.base)))
           => (pc = "done" /\ result = ExplicitLabelResult(last.page, last.base))

\* the fallback itself: B's content goes through the finders, and what they
\* find in it is the result
FallbackRunsFinders ==
    FellBackToContent =>
        /\ last.calls # <<>>
        /\ last.value = find_first_logo(last.page, last.base, ALL_FINDERS, 0).value
        /\ Truthy(last.value) => (pc = "done" /\ result = last.value)

\* C7 as claimed: once a strategy has succeeded with non-empty content no later
\* strategy is invoked for that candidate URL, whether or not a finder matched.
C7_FirstContentOnly ==
    Len(last.attempts) = 2 => last.attempts[1].kind # "content"

\* C7 as amended: for one candidate URL every strategy that succeeds with
\* non-empty content has it handed to the finders, and a later strategy is
\* invoked exactly when the earlier one yielded no logo: a failure, an
\* exception, empty content and content that no finder matches all advance to
\* the next strategy; only a match ends the chain.
C7_FirstMatchOnly ==
    /\ last.kind = "content" => last.calls # <<>>
    /\ last.kind \in {"fail", "raise", "empty"} => (last.calls = <<>> /\ ~Truthy(last.value))
    /\ Len(last.attempts) = 2 => ~last.attempts[1].found
    /\ (Len(last.attempts) = 1 /\ ~last.attempts[1].found) =>
          (pc = "candidates" /\ ci = last.ci /\ si = 2)
    /\ (last.attempts # <<>> /\ last.attempts[Len(last.attempts)].found) => pc = "done"

C7_Witness ==
    /\ Len(last.attempts) = 2
    /\ last.attempts[1].kind = "content" /\ ~last.attempts[1].found
    /\ last.attempts[2].kind = "content" /\ last.attempts[2].found
    /\ pc = "done"

\* the three candidate URLs of a trimmed domain
Candidates(c) ==
    << <<"https:", "/", "/">> \o c,
       <<"https:", "/", "/", "about.">> \o c,
       <<"https:", "/", "/">> \o c \o <<"/", "about">> >>

\* the position in urls_to_try of the k-th URL fetched (0: not one of them)
FetchedIdx(k) ==
    IF \E n \in 1..Len(urls) : urls[n] = fetchLog[k].url
    THEN CHOOSE n \in 1..Len(urls) : urls[n] = fetchLog[k].url
    ELSE 0

\* C8: for a domain d (after trimming) the resolver tries exactly https://d,
\* https://about.d and https://d/about, in that order, and fetches no other URL.
C8_CandidateUrls ==
    (pc \in {"candidates", "done"} /\ probe # "dns") =>
        /\ \E c \in Cores : \E i \in 0..MaxPad : \E j \in 0..MaxPad :
              domain = Blanks(i) \o c \o Blanks(j) /\ urls = Candidates(c)
        /\ \A c \in Cores : \A i \in 0..MaxPad : \A j \in 0..MaxPad :
              domain = Blanks(i) \o c \o Blanks(j) => urls = Candidates(c)
        /\ \A k \in 1..Len(fetchLog) : FetchedIdx(k) # 0
        /\ \A k \in 1..Len(fetchLog) : \A l \in k..Len(fetchLog) : FetchedIdx(k) <= FetchedIdx(l)
        /\ fetchLog # <<>> => FetchedIdx(1) = 1
        /\ (pc = "done" /\ Exhausted) => FetchedIdx(Len(fetchLog)) = 3

C8_Witness ==
    /\ pc = "done"
    /\ domain = <<" ", "example.com", " ">>
    /\ urls = << <<"https:", "/", "/", "example.com">>,
                 <<"https:", "/", "/", "about.", "example.com">>,
                 <<"https:", "/", "/", "example.com", "/", "about">> >>
    /\ Len(fetchLog) = 6
    /\ fetchLog[6].url = <<"https:", "/", "/", "example.com", "/", "about">>

\* the last pass ended because a finder raised inside find_first_logo
FinderRaised == last.kind = "content" /\ last.raised

\* C11: an exception of one finder or one strategy counts as "no result" of that
\* element only: after a finder raises, the finders after it are still called on
\* the same document (up to the first that finds something), and after a
\* strategy raises the next strategy is tried on the same candidate URL.
C11_ExceptionAbsorption ==
    /\ FinderRaised =>
          \/ Len(last.calls) = Len(ALL_FINDERS)
          \/ Truthy(last.value)
    /\ (last.kind = "raise" /\ last.si < Len(ALL_STRATEGIES)) =>
          (pc = "candidates" /\ ci = last.ci /\ si = last.si + 1)

\* what does hold: an exception of a strategy or of a finder ends the pass of
\* that strategy only; the resolver goes on with the next strategy or candidate
\* URL and the domain still gets a result
StrategyLevelAbsorption ==
    /\ (last.kind = "raise" \/ FinderRaised) =>
          /\ ~Truthy(last.value)
          /\ IF last.si < Len(ALL_STRATEGIES)
             THEN pc = "candidates" /\ ci = last.ci /\ si = last.si + 1
             ELSE IF last.ci < Len(urls)
             THEN pc = "candidates" /\ ci = last.ci + 1 /\ si = 1
             ELSE pc = "done" /\ result = LOGO_NOT_FOUND

\* the k-th (candidate URL, strategy) pair in priority order: the strategies
\* of the first candidate, then those of the second, ...
PairAt(k) ==
    [url |-> urls[((k - 1) \div Len(ALL_STRATEGIES)) + 1],
     strategy |-> ALL_STRATEGIES[((k - 1) % Len(ALL_STRATEGIES)) + 1]]

\* C12: the fetches of one call of get_logo_for_domain are a prefix of
\* (candidate 1, A), (candidate 1, B), (candidate 2, A), ..., (candidate 3, B):
\* each candidate starts again at strategy A, no pair is fetched twice, and there
\* are at most six fetches.
C12_FetchOrder ==
    /\ Len(fetchLog) <= 6
    /\ Len(fetchLog) <= Len(urls) * Len(ALL_STRATEGIES)
    /\ \A k \in 1..Len(fetchLog) : fetchLog[k] = PairAt(k)
    /\ \A k \in 1..Len(fetchLog) : \A l \in (k + 1)..Len(fetchLog) : fetchLog[k] # fetchLog[l]
    /\ pc = "candidates" => Len(fetchLog) = Len(ALL_STRATEGIES) * (ci - 1) + (si - 1)

C12_Witness ==
    /\ pc = "done"
    /\ Len(fetchLog) = 6
    /\ fetchLog[3].strategy = "fetch_with_http2" /\ fetchLog[3].url = urls[2]
    /\ fetchLog[6].strategy = "fetch_without_headers" /\ fetchLog[6].url = urls[3]

\* a pass that did not assign logo_url: the strategy raised or failed, returned
\* no content, or a finder raised
NotAssigned == last.kind \in {"raise", "fail", "empty"} \/ FinderRaised

\* C14: a logo returned by get_logo_with_strategies is what the finders found in
\* the content fetched in that same pass, never a value left in logo_url by an
\* earlier pass; and a pass that reads logo_url before it was ever assigned ends
\* in the except clause and the loop goes on to the next strategy.
C14_NoStaleLogo ==
    /\ (pc = "done" /\ fetchLog # <<>> /\ AcceptResult(result)) =>
          /\ last.kind = "content" /\ ~last.raised
          /\ result = find_first_logo(last.page, last.base, ALL_FINDERS, 0).value
          /\ fetchLog[Len(fetchLog)] =
                [url |-> urls[last.ci], strategy |-> ALL_STRATEGIES[last.si]]
    /\ ~Truthy(last.before)
    /\ (last.kind \in {"fail", "empty"} /\ last.before = Unbound) =>
          /\ last.caught
          /\ last.si < Len(ALL_STRATEGIES) =>
                (pc = "candidates" /\ ci = last.ci /\ si = last.si + 1)
    /\ (NotAssigned /\ last.kind # "none") => (logo_url = last.before \/ ci # last.ci)

C14_Witness ==
    /\ Len(last.attempts) = 2
    /\ last.attempts[1].kind \in {"fail", "empty"}
    /\ last.before = Unbound
    /\ pc = "done" /\ AcceptResult(result) /\ result = last.value

====
